---------------------------- MODULE Spec2Model ----------------------------
(***************************************************************************)
(* vibecurb: secret scanner and remediation engine.                        *)
(*                                                                         *)
(* Spec      the remediation engine (src/fixer/auto-fix.ts): autoFix runs  *)
(*           step by step over a small file system, previewFixes.          *)
(* SpecScan  scanDirectory and the `scan` command over directory trees.    *)
(* SpecApi   scanFile and scanDirectory called directly on one tree.       *)
(* SpecNet   scanNetworkSecurity called file by file.                      *)
(* SpecHandoff, SpecRewrite   autoFix on the findings a scan reports, on   *)
(*           files with long secrets and with text the scan passes over.   *)
(* SpecNames the name assignment of autoFix and previewFixes on its own.   *)
(*                                                                         *)
(* Text is modelled structurally.  A file that the code handles line by    *)
(* line (.env, .env.example, .gitignore) is the sequence content.split     *)
(* ("\n") of its lines, so `${a}\n${b}` is the concatenation a \o b of the *)
(* two line sequences.  A source file is a sequence of spans; a span       *)
(* records which rewrite regex of applyFixesToFile matches it.  A          *)
(* generated variable name `${baseName}_${index}` is the pair              *)
(* [base, idx]; idx = 0 stands for the bare base name.                     *)
(***************************************************************************)
EXTENDS Naturals, Sequences, FiniteSets

\* ------------------------------------------------------------------ bounds
\* longest findings list handed to autoFix / previewFixes
MaxFindings == 2
\* number of autoFix runs in one behaviour
MaxRuns == 2
\* number of I/O operations that fail in one behaviour
MaxFaults == 1

\* ------------------------------------------------------- generic helpers
Range(s) == { s[i] : i \in 1..Len(s) }

IsPrefix(s, t) == Len(s) <= Len(t) /\ SubSeq(t, 1, Len(s)) = s

SeqsUpTo(S, n) == UNION { [1..k -> S] : k \in 0..n }

\* the distinct elements of s in the order of their first occurrence
RECURSIVE DistinctInOrder(_)
DistinctInOrder(s) ==
  IF s = <<>> THEN <<>>
  ELSE LET front == DistinctInOrder(SubSeq(s, 1, Len(s) - 1))
           last  == s[Len(s)]
       IN IF last \in Range(front) THEN front ELSE Append(front, last)

\* ------------------------------------------------------------ name table
\* patternToEnv of generateEnvVarName; a rule absent from the table is
\* looked up as undefined and falls back to "SECRET"
PatternToEnvKeys ==
  { "API Key (Generic)", "AWS Access Key ID", "AWS Secret Key",
    "GitHub Token", "Stripe Key", "Stripe Test Key", "Database URL",
    "Bearer Token", "Slack Token", "JWT Token", "Google API Key",
    "Password in Code", "Email Address" }

patternToEnv(pattern) ==
  CASE pattern = "API Key (Generic)" -> "API_KEY"
    [] pattern = "AWS Access Key ID" -> "AWS_ACCESS_KEY_ID"
    [] pattern = "AWS Secret Key"    -> "AWS_SECRET_ACCESS_KEY"
    [] pattern = "GitHub Token"      -> "GITHUB_TOKEN"
    [] pattern = "Stripe Key"        -> "STRIPE_SECRET_KEY"
    [] pattern = "Stripe Test Key"   -> "STRIPE_TEST_KEY"
    [] pattern = "Database URL"      -> "DATABASE_URL"
    [] pattern = "Bearer Token"      -> "API_TOKEN"
    [] pattern = "Slack Token"       -> "SLACK_TOKEN"
    [] pattern = "JWT Token"         -> "JWT_SECRET"
    [] pattern = "Google API Key"    -> "GOOGLE_API_KEY"
    [] pattern = "Password in Code"  -> "PASSWORD"
    [] pattern = "Email Address"     -> "CONTACT_EMAIL"
    [] OTHER                         -> "SECRET"

\* index > 0 ? `${baseName}_${index}` : baseName
generateEnvVarName(pattern, index) ==
  [base |-> patternToEnv(pattern), idx |-> index]

\* a search that numbers a taken name by the count of all names in use
FirstFreeIndexCountsAll(pattern, usedNames, index) ==
  IF generateEnvVarName(pattern, index) \in usedNames
  THEN Cardinality(usedNames)
  ELSE index

\* the while loop of generateUniqueEnvVarName: first index whose name is free
RECURSIVE FirstFreeIndex(_, _, _)
FirstFreeIndex(pattern, usedNames, index) ==
  IF generateEnvVarName(pattern, index) \in usedNames
  THEN FirstFreeIndex(pattern, usedNames, index + 1)
  ELSE index

\* a name generator that never looks at usedNames
generateUniqueEnvVarNameNoLoop(pattern, usedNames) ==
  generateEnvVarName(pattern, 0)

\* the name generateUniqueEnvVarName returns (and adds to usedNames)
generateUniqueEnvVarName(pattern, usedNames) ==
  generateEnvVarName(pattern, FirstFreeIndex(pattern, usedNames, 0))

\* ------------------------------------------------------ mapping (autoFix)
\* a Map whose has() always answers false
envMappingsHasNever(envMap, match) == FALSE

\* envMappings.has(finding.match)
envMappingsHas(envMap, match) == match \in DOMAIN envMap

\* envMappings.set(match, envName)
envMappingsSet(envMap, match, envName) ==
  [ v \in DOMAIN envMap \cup {match} |->
      IF v = match THEN envName ELSE envMap[v] ]

EmptyMap == [ v \in {} |-> [base |-> "", idx |-> 0] ]

\* autoFix lines 196-198: new Set(), new Map(), [] made by every call
NewLocals == [usedNames |-> {}, envMappings |-> EmptyMap, mappings |-> <<>>]

\* the first findings.forEach of autoFix, run on the locals of the call:
\* usedNames, envMappings, mappings
RECURSIVE GenerateMappingsFrom(_, _)
GenerateMappingsFrom(fs, locals) ==
  IF fs = <<>>
  THEN locals
  ELSE LET acc     == GenerateMappingsFrom(SubSeq(fs, 1, Len(fs) - 1), locals)
           finding == fs[Len(fs)]
           envName == generateUniqueEnvVarName(finding.pattern, acc.usedNames)
       IN IF envMappingsHas(acc.envMappings, finding.match)
          THEN acc
          ELSE [ usedNames   |-> acc.usedNames \cup {envName},
                 envMappings |-> envMappingsSet(acc.envMappings,
                                                finding.match, envName),
                 mappings    |-> Append(acc.mappings,
                                   [ pattern |-> finding.pattern,
                                     envName |-> envName,
                                     value   |-> finding.match ]) ]

\* what a call of autoFix on fs assigns
GenerateMappings(fs) == GenerateMappingsFrom(fs, NewLocals)

\* keys of findingsByFile, in Map insertion order
FilesInOrder(fs) == DistinctInOrder([ i \in 1..Len(fs) |-> fs[i].filePath ])

\* findingsByFile.get(filePath)
FileFindings(fs, filePath) ==
  SelectSeq(fs, LAMBDA f : f.filePath = filePath)

\* ------------------------------------------------------------- strings
\* A matched text is kept as three segments: characters 0..19, 20..99 and
\* 100.. ("" for an empty segment), which is what substring(0, 20) and
\* substring(0, 100) tell apart.
Str(a, b, c) == [p20 |-> a, p100 |-> b, rest |-> c]

\* s.substring(0, n), n = 20 or 100
Substring(s, n) ==
  IF n = 20 THEN Str(s.p20, "", "") ELSE Str(s.p20, s.p100, "")

NoName == [base |-> "", idx |-> 0]

\* ------------------------------------------------------- source content
\* A span of source text.  det names the secret-catalog rule whose regex
\* matches inside the span ("none": no rule matches), val is the matched
\* text, marker the suppression marker the matched text contains ("" for
\* none), rw the rewrite regex of applyFixesToFile that matches the span
\* ("none": no rewrite regex matches it).  Ref(n) is `process.env.<n>`.
Text(det, rw, val, marker) ==
  [t |-> "span", det |-> det, rw |-> rw, val |-> val, marker |-> marker,
   env |-> NoName]

Span(rw, val) == Text(rw, rw, val, "")

Ref(envName) ==
  [t |-> "ref", det |-> "none", rw |-> "none", val |-> Str("", "", ""),
   marker |-> "", env |-> envName]

\* a run of bytes that is no valid UTF-8 sequence, such as a Latin-1 letter
\* in a comment
InvalidBytes ==
  [t |-> "bytes", det |-> "none", rw |-> "none", val |-> Str("", "", ""),
   marker |-> "", env |-> NoName]

\* U+FFFD, which the UTF-8 decoder returns in place of such bytes, written
\* back as EF BF BD
ReplacementChar ==
  [t |-> "fffd", det |-> "none", rw |-> "none", val |-> Str("", "", ""),
   marker |-> "", env |-> NoName]

\* fs.readFileSync(filePath, "utf8"): the string the bytes decode to
readFileSyncUtf8(bytes) ==
  [ i \in 1..Len(bytes) |->
      IF bytes[i].t = "bytes" THEN ReplacementChar ELSE bytes[i] ]

\* rules that have an entry in the `patterns` table of applyFixesToFile
RewriteRules ==
  { "API Key (Generic)", "Database URL", "JWT Token", "Email Address" }

\* modified.replace(pattern, `process.env.${envVar}`) with a /g regex:
\* every span the regex of `rule` matches is replaced
Replace(modified, rule, envVar) ==
  [ i \in 1..Len(modified) |->
      IF modified[i].t = "span" /\ modified[i].rw = rule
      THEN Ref(envVar) ELSE modified[i] ]

\* the findings.forEach of applyFixesToFile
RECURSIVE ApplyReplacements(_, _, _)
ApplyReplacements(content, fileFindings, envMap) ==
  IF fileFindings = <<>> THEN content
  ELSE LET finding  == fileFindings[Len(fileFindings)]
           modified == ApplyReplacements(content,
                         SubSeq(fileFindings, 1, Len(fileFindings) - 1),
                         envMap)
       IN IF finding.match \in DOMAIN envMap
             /\ finding.pattern \in RewriteRules
          THEN Replace(modified, finding.pattern, envMap[finding.match])
          ELSE modified

\* ------------------------------------------------------- artifact files
NoFile == [exists |-> FALSE, data |-> <<>>]

File(lines) == [exists |-> TRUE, data |-> lines]

\* `${m.envName}=${m.value}` for every mapping; join("\n") makes each a line
EnvContent(maps) ==
  [ i \in 1..Len(maps) |-> [name |-> maps[i].envName, value |-> maps[i].value] ]

\* a createEnvFile that always starts a new file
createEnvFileOverwrites(env, maps) == File(EnvContent(maps))

\* createEnvFile: append to an existing .env, else create it
createEnvFile(env, maps) ==
  IF env.exists THEN File(env.data \o EnvContent(maps))
  ELSE File(EnvContent(maps))

\* v.toLowerCase() of a generated name: the base in lower case, the suffix
\* digits as they are
nameToLowerCase(v) ==
  [ base |-> CASE v.base = "API_KEY"               -> "api_key"
               [] v.base = "AWS_ACCESS_KEY_ID"     -> "aws_access_key_id"
               [] v.base = "AWS_SECRET_ACCESS_KEY" -> "aws_secret_access_key"
               [] v.base = "GITHUB_TOKEN"          -> "github_token"
               [] v.base = "STRIPE_SECRET_KEY"     -> "stripe_secret_key"
               [] v.base = "STRIPE_TEST_KEY"       -> "stripe_test_key"
               [] v.base = "DATABASE_URL"          -> "database_url"
               [] v.base = "API_TOKEN"             -> "api_token"
               [] v.base = "SLACK_TOKEN"           -> "slack_token"
               [] v.base = "JWT_SECRET"            -> "jwt_secret"
               [] v.base = "GOOGLE_API_KEY"        -> "google_api_key"
               [] v.base = "PASSWORD"              -> "password"
               [] v.base = "CONTACT_EMAIL"         -> "contact_email"
               [] v.base = "SECRET"                -> "secret"
               [] OTHER                            -> v.base,
    idx  |-> v.idx ]

\* a placeholder that repeats the name as it is
ExampleContentVerbatim(envVars) ==
  [ i \in 1..Len(envVars) |-> [name |-> envVars[i], lower |-> envVars[i]] ]

\* `${v}=your_${v.toLowerCase()}_here`; lower is the text between your_
\* and _here
ExampleContent(envVars) ==
  [ i \in 1..Len(envVars) |->
      [name |-> envVars[i], lower |-> nameToLowerCase(envVars[i])] ]

\* createEnvExample: always overwrites
createEnvExample(envVars) == File(ExampleContent(envVars))

envEntries == << ".env", ".env.local", ".env.*.local" >>

\* entry is a substring of line, for the lines the model uses
IsSubstring(entry, line) ==
  \/ entry = line
  \/ entry = ".env" /\ line \in { ".env.local", ".env.*.local", ".env\r" }

\* a membership test by substring instead of whole line
linesIncludesSubstring(lines, entry) ==
  \E i \in 1..Len(lines) : IsSubstring(entry, lines[i])

\* lines.includes(entry)
linesIncludes(lines, entry) == \E i \in 1..Len(lines) : lines[i] = entry

\* every entry counts as missing
MissingAll(lines) == envEntries

\* envEntries.filter((entry) => !lines.includes(entry))
Missing(lines) == SelectSeq(envEntries, LAMBDA e : ~linesIncludes(lines, e))

\* updateGitignore: the .gitignore it leaves behind
updateGitignore(git) ==
  IF ~git.exists THEN File(envEntries \o << "" >>)
  ELSE IF Len(Missing(git.data)) > 0
       THEN File(git.data \o Missing(git.data) \o << "" >>)
       ELSE git

\* --------------------------------------------------------- previewFixes
RECURSIVE PreviewNames(_)
PreviewNames(fs) ==
  IF fs = <<>> THEN [usedNames |-> {}, envVars |-> <<>>]
  ELSE LET acc     == PreviewNames(SubSeq(fs, 1, Len(fs) - 1))
           finding == fs[Len(fs)]
           envName == generateUniqueEnvVarName(finding.pattern, acc.usedNames)
       IN [ usedNames |-> acc.usedNames \cup {envName},
            envVars   |-> Append(acc.envVars,
                            [ name  |-> envName,
                              shown |-> Substring(finding.match, 20) ]) ]

previewFixes(fs) ==
  [ called        |-> TRUE,
    envVars       |-> PreviewNames(fs).envVars,
    filesToModify |-> FilesInOrder(fs) ]

\* ================================================== remediation: state
VARIABLES
  files,          \* source file path -> content on disk (sequence of spans)
  backups,        \* source file path -> <path>.backup (NoFile when absent)
  envFile,        \* <projectPath>/.env
  envExample,     \* <projectPath>/.env.example
  gitignore,      \* <projectPath>/.gitignore
  pc,             \* position of the caller / of the autoFix run
  findings,       \* the findings list of the current call
  usedNames,      \* autoFix local: names taken in this run
  envMappings,    \* autoFix local: match -> envName
  mappings,       \* autoFix local: EnvMapping[] in discovery order
  queue,          \* autoFix local: findingsByFile keys not yet processed
  filesModified,  \* autoFix local
  result,         \* the FixResult returned by the last autoFix call
  preview,        \* what the last previewFixes call returned
  runs,           \* number of autoFix calls so far
  pre,            \* history: files, .env, .gitignore when the run started
  faults,         \* history: I/O operations that failed in this run
  nFaults,        \* history: number of I/O failures so far
  written,        \* history: path -> content the run wrote to it
  gitSettled      \* history: .gitignore after the first successful run

fixVars ==
  << files, backups, envFile, envExample, gitignore, pc, findings, usedNames,
     envMappings, mappings, queue, filesModified, result, preview, runs,
     pre, faults, nFaults, written, gitSettled >>

\* the scanner's state
VARIABLES
  runtime,    \* what matchAll does with a regex that has no g flag
  tree,       \* the scanned tree: unreadable directories, files per directory
  spc,        \* position of the caller of the scanner
  request,    \* the ScanOptions of the last call
  flags,      \* --dry-run, --fix, --json of the last `scan` command
  scanOut,    \* what scanDirectory returned and which files it scanned
  exitCode,   \* exit code of the last `scan` command
  handoff,    \* remediation function the command called with allFindings
  fileOut,    \* the last direct call of scanFile: arguments, return, log
  netOut      \* the last call of scanNetworkSecurity: arguments, return, log

scanVars ==
  << runtime, tree, spc, request, flags, scanOut, exitCode, handoff,
     fileOut, netOut >>

vars == << fixVars, scanVars >>

\* ----------------------------------------------------------- the inputs
SourceFiles == { "a.js", "b.js" }

S1 == Str("key-one", "", "")
S2 == Str("key-two", "", "")
S3 == Str("pem-header", "", "")

Finding(filePath, match, pattern) ==
  [filePath |-> filePath, match |-> match, pattern |-> pattern]

\* the findings a caller may pass: one secret in two files, two secrets of
\* one rule in one file, a rule with neither a name nor a rewrite regex
FindingUniverse ==
  { Finding("a.js", S1, "API Key (Generic)"),
    Finding("a.js", S2, "API Key (Generic)"),
    Finding("b.js", S1, "API Key (Generic)"),
    Finding("b.js", S3, "Private Key") }

FindingLists == SeqsUpTo(FindingUniverse, MaxFindings)

Plain == Span("none", Str("", "", ""))

InitialContents(f) ==
  IF f = "a.js"
  THEN { << Span("API Key (Generic)", S1), Plain,
            Span("API Key (Generic)", S2) >> }
  ELSE { << Span("API Key (Generic)", S1), Span("none", S3) >> }

OldEnv == File(<< [name |-> generateEnvVarName("API Key (Generic)", 0),
                   value |-> Str("old-key", "", "")] >>)

InitialGitignores ==
  { NoFile,
    File(<< "" >>),
    File(<< "node_modules", "" >>),
    File(<< ".env.local", "dist" >>),
    File(<< ".env\r", ".env.local\r", "" >>),
    File(<< ".env", ".env.local", ".env.*.local", "" >>) }

NoResult == [returned |-> FALSE, success |-> FALSE, envVars |-> <<>>,
             filesModified |-> <<>>]

NoPreview == [called |-> FALSE, envVars |-> <<>>, filesToModify |-> <<>>]

NoWrite == [done |-> FALSE, data |-> <<>>]

FixInit ==
  /\ files \in { fn \in [SourceFiles -> UNION { InitialContents(f) :
                                                  f \in SourceFiles }] :
                   \A f \in SourceFiles : fn[f] \in InitialContents(f) }
  /\ backups = [f \in SourceFiles |-> NoFile]
  /\ envFile \in { NoFile, OldEnv }
  /\ envExample = NoFile
  /\ gitignore \in InitialGitignores
  /\ pc = "idle"
  /\ findings = <<>>
  /\ usedNames = {}
  /\ envMappings = EmptyMap
  /\ mappings = <<>>
  /\ queue = <<>>
  /\ filesModified = <<>>
  /\ result = NoResult
  /\ preview = NoPreview
  /\ runs = 0
  /\ pre = [files |-> files, env |-> envFile, git |-> gitignore]
  /\ faults = {}
  /\ nFaults = 0
  /\ written = [f \in SourceFiles |-> NoWrite]
  /\ gitSettled = [set |-> FALSE, git |-> NoFile]

\* ================================================ remediation: actions
\* a caller (the CLI's allFindings, or a user of the exported functions)
\* holds a findings list
Call ==
  /\ pc = "idle"
  /\ \E fl \in FindingLists : findings' = fl
  /\ pc' = "ready"
  /\ preview' = NoPreview
  /\ UNCHANGED << files, backups, envFile, envExample, gitignore, usedNames,
                  envMappings, mappings, queue, filesModified, result, runs,
                  pre, faults, nFaults, written, gitSettled >>
  /\ UNCHANGED scanVars

\* previewFixes(findings): computes names, touches no file
PreviewFixes ==
  /\ pc = "ready"
  /\ ~preview.called
  /\ preview' = previewFixes(findings)
  /\ UNCHANGED << files, backups, envFile, envExample, gitignore, pc,
                  findings, usedNames, envMappings, mappings, queue,
                  filesModified, result, runs, pre, faults, nFaults,
                  written, gitSettled >>
  /\ UNCHANGED scanVars

SuccessResult(maps, modified) ==
  [ returned      |-> TRUE,
    success       |-> TRUE,
    envVars       |-> [ i \in 1..Len(maps) |-> maps[i].envName ],
    filesModified |-> modified ]

\* a catch block that reports what the run had done so far
FailureResultPartial ==
  [ returned      |-> TRUE,
    success       |-> FALSE,
    envVars       |-> [ i \in 1..Len(mappings) |-> mappings[i].envName ],
    filesModified |-> filesModified ]

\* the catch block of autoFix
FailureResult ==
  [returned |-> TRUE, success |-> FALSE, envVars |-> <<>>,
   filesModified |-> <<>>]

\* a set and a map kept at module level: what earlier calls put into them
\* is still there when a call begins
autoFixLocalsShared ==
  [usedNames |-> usedNames, envMappings |-> envMappings, mappings |-> <<>>]

\* the set, the map and the list a call of autoFix begins with: lines
\* 196-198 create them inside the function
autoFixLocals == NewLocals

\* autoFix, lines 196-231: early return on an empty list, else the name
\* assignment and the grouping by file
AutoFixStart ==
  /\ pc = "ready"
  /\ runs < MaxRuns
  /\ runs' = runs + 1
  /\ pre' = [files |-> files, env |-> envFile, git |-> gitignore]
  /\ faults' = {}
  /\ written' = [f \in SourceFiles |-> NoWrite]
  /\ filesModified' = <<>>
  /\ IF Len(findings) = 0
     THEN /\ result' = SuccessResult(<<>>, <<>>)
          /\ usedNames' = {}
          /\ envMappings' = EmptyMap
          /\ mappings' = <<>>
          /\ queue' = <<>>
          /\ pc' = "done"
     ELSE /\ usedNames' =
               GenerateMappingsFrom(findings, autoFixLocals).usedNames
          /\ envMappings' =
               GenerateMappingsFrom(findings, autoFixLocals).envMappings
          /\ mappings' =
               GenerateMappingsFrom(findings, autoFixLocals).mappings
          /\ queue' = FilesInOrder(findings)
          /\ result' = NoResult
          /\ pc' = "backup"
  /\ UNCHANGED << files, backups, envFile, envExample, gitignore, findings,
                  preview, nFaults, gitSettled >>
  /\ UNCHANGED scanVars

\* a createBackup that copies nothing
createBackupSkipped(filePath) == backups

\* a createBackup that keeps a backup that is already there
createBackupOnce(filePath) ==
  IF backups[filePath].exists THEN backups
  ELSE [backups EXCEPT ![filePath] = File(files[filePath])]

\* createBackup: fs.copyFileSync(filePath, `${filePath}.backup`)
createBackup(filePath) == [backups EXCEPT ![filePath] = File(files[filePath])]

\* a catch block that lets the error escape into autoFix
applyFixesToFileRethrows == TRUE

\* catch block of applyFixesToFile: the error is logged and the function
\* returns false; nothing is thrown into autoFix (FALSE: not rethrown)
applyFixesToFileThrows == FALSE

\* a catch block that copies every backup of the run back
autoFixCatchRestores ==
  [ f \in SourceFiles |-> IF written[f].done THEN pre.files[f] ELSE files[f] ]

\* the source files as the catch block of autoFix leaves them: it only
\* builds the failure result
autoFixCatchFiles == files

\* after a file of findingsByFile.forEach: the next file, or createEnvFile
AfterFile(rest) == IF rest = <<>> THEN "env" ELSE "backup"

\* the outcomes an I/O operation may still have: failures are counted
IoOutcomes == IF nFaults < MaxFaults THEN BOOLEAN ELSE { TRUE }

\* an I/O operation named op has thrown
Fault(op) ==
  /\ faults' = faults \cup { op }
  /\ nFaults' = nFaults + 1

\* the run ends in the catch block of autoFix
Abort ==
  /\ result' = FailureResult
  /\ files' = autoFixCatchFiles
  /\ pc' = "done"

\* applyFixesToFile returned false: the file is not pushed to filesModified
SkipFile ==
  IF applyFixesToFileThrows
  THEN /\ Abort
       /\ UNCHANGED queue
  ELSE /\ queue' = Tail(queue)
       /\ pc' = AfterFile(Tail(queue))
       /\ UNCHANGED << files, result >>

\* applyFixesToFile, lines 152-156: read the file, then back it up
ApplyBackup ==
  /\ pc = "backup"
  /\ \E readOk, copyOk \in IoOutcomes :
       IF readOk /\ copyOk
       THEN /\ backups' = createBackup(Head(queue))
            /\ pc' = "write"
            /\ UNCHANGED << files, queue, result, faults, nFaults >>
       ELSE /\ Fault(IF readOk THEN "backup" ELSE "read")
            /\ SkipFile
            /\ UNCHANGED backups
  /\ UNCHANGED << envFile, envExample, gitignore, findings, usedNames,
                  envMappings, mappings, filesModified, preview, runs, pre,
                  written, gitSettled >>
  /\ UNCHANGED scanVars

\* applyFixesToFile, lines 159-182: replace, write back, return true
ApplyWrite ==
  /\ pc = "write"
  /\ \E writeOk \in IoOutcomes :
       IF writeOk
       THEN LET f        == Head(queue)
                modified == ApplyReplacements(readFileSyncUtf8(files[f]),
                              FileFindings(findings, f), envMappings)
            IN /\ files' = [files EXCEPT ![f] = modified]
               /\ written' = [written EXCEPT
                                ![f] = [done |-> TRUE, data |-> modified]]
               /\ filesModified' = Append(filesModified, f)
               /\ queue' = Tail(queue)
               /\ pc' = AfterFile(Tail(queue))
               /\ UNCHANGED << result, faults, nFaults >>
       ELSE /\ Fault("write")
            /\ SkipFile
            /\ UNCHANGED << written, filesModified >>
  /\ UNCHANGED << backups, envFile, envExample, gitignore, findings,
                  usedNames, envMappings, mappings, preview, runs, pre,
                  gitSettled >>
  /\ UNCHANGED scanVars

\* autoFix line 241
CreateEnvFile ==
  /\ pc = "env"
  /\ \E ok \in IoOutcomes :
       IF ok
       THEN /\ envFile' = createEnvFile(envFile, mappings)
            /\ pc' = "example"
            /\ UNCHANGED << files, result, faults, nFaults >>
       ELSE /\ Fault("env")
            /\ Abort
            /\ UNCHANGED envFile
  /\ UNCHANGED << backups, envExample, gitignore, findings, usedNames,
                  envMappings, mappings, queue, filesModified, preview, runs,
                  pre, written, gitSettled >>
  /\ UNCHANGED scanVars

\* autoFix lines 244-247
CreateEnvExample ==
  /\ pc = "example"
  /\ \E ok \in IoOutcomes :
       IF ok
       THEN /\ envExample' = createEnvExample(
                               [ i \in 1..Len(mappings) |-> mappings[i].envName ])
            /\ pc' = "gitignore"
            /\ UNCHANGED << files, result, faults, nFaults >>
       ELSE /\ Fault("example")
            /\ Abort
            /\ UNCHANGED envExample
  /\ UNCHANGED << backups, envFile, gitignore, findings, usedNames,
                  envMappings, mappings, queue, filesModified, preview, runs,
                  pre, written, gitSettled >>
  /\ UNCHANGED scanVars

\* autoFix lines 250-259: updateGitignore, then the success result
UpdateGitignore ==
  /\ pc = "gitignore"
  /\ \E ok \in IoOutcomes :
       IF ok
       THEN /\ gitignore' = updateGitignore(gitignore)
            /\ result' = SuccessResult(mappings, filesModified)
            /\ gitSettled' = IF gitSettled.set THEN gitSettled
                             ELSE [set |-> TRUE,
                                   git |-> updateGitignore(gitignore)]
            /\ pc' = "done"
            /\ UNCHANGED << files, faults, nFaults >>
       ELSE /\ Fault("gitignore")
            /\ Abort
            /\ UNCHANGED << gitignore, gitSettled >>
  /\ UNCHANGED << backups, envFile, envExample, findings, usedNames,
                  envMappings, mappings, queue, filesModified, preview, runs,
                  pre, written >>
  /\ UNCHANGED scanVars

\* autoFix has returned; the caller may run it again on the same list
Finish ==
  /\ pc = "done"
  /\ pc' = "ready"
  /\ UNCHANGED << files, backups, envFile, envExample, gitignore, findings,
                  usedNames, envMappings, mappings, queue, filesModified,
                  result, preview, runs, pre, faults, nFaults, written,
                  gitSettled >>
  /\ UNCHANGED scanVars

Next ==
  \/ Call
  \/ PreviewFixes
  \/ AutoFixStart
  \/ ApplyBackup
  \/ ApplyWrite
  \/ CreateEnvFile
  \/ CreateEnvExample
  \/ UpdateGitignore
  \/ Finish


\* ================================================= remediation: claims
\* the name a finding is replaced by: envMappings.get(finding.match)
AssignedName(finding) == envMappings[finding.match]

MatchValues == { findings[i].match : i \in 1..Len(findings) }

\* the mappings of the current findings list have been generated
Assigned == runs > 0 /\ Len(findings) > 0

Succeeded == pc = "done" /\ result.returned /\ result.success

\* C1: in one autoFix run every finding has a name; two findings get the
\* same name exactly when their match values are equal, also when both
\* come from the same rule; on success the returned envVars are exactly
\* the assigned names, one per distinct value.
C1_ValueNameBijection ==
  Assigned =>
    /\ \A i \in 1..Len(findings) : findings[i].match \in DOMAIN envMappings
    /\ \A i, j \in 1..Len(findings) :
         (findings[i].match \in DOMAIN envMappings
            /\ findings[j].match \in DOMAIN envMappings)
         => ( (findings[i].match = findings[j].match)
              <=> (AssignedName(findings[i]) = AssignedName(findings[j])) )
    /\ \A k \in 1..Len(mappings) :
         /\ mappings[k].value \in DOMAIN envMappings
         /\ envMappings[mappings[k].value] = mappings[k].envName
    /\ Succeeded =>
         /\ Range(result.envVars)
              = { AssignedName(findings[i]) : i \in 1..Len(findings) }
         /\ Len(result.envVars) = Cardinality(MatchValues)

\* two findings of one rule with different values got different names
C1_Witness ==
  /\ Succeeded
  /\ \E i, j \in 1..Len(findings) :
       /\ findings[i].pattern = findings[j].pattern
       /\ findings[i].match # findings[j].match
       /\ AssignedName(findings[i]).base = AssignedName(findings[j]).base
       /\ AssignedName(findings[i]) # AssignedName(findings[j])

\* the lines a run appended to (or created in) .env
EnvAppended ==
  SubSeq(envFile.data,
         (IF pre.env.exists THEN Len(pre.env.data) ELSE 0) + 1,
         Len(envFile.data))

\* C2: a successful run on N findings with K distinct match values writes
\* exactly K NAME=value entries to .env, one per distinct value, and
\* returns exactly K names in envVars.
C2_OneEntryPerDistinctValue ==
  (Succeeded /\ Len(findings) > 0) =>
    /\ envFile.exists
    /\ Len(EnvAppended) = Cardinality(MatchValues)
    /\ { EnvAppended[i].value : i \in 1..Len(EnvAppended) } = MatchValues
    /\ Len(result.envVars) = Cardinality(MatchValues)

\* N = 2 findings, K = 1 value, appended to an existing .env
C2_Witness ==
  /\ Succeeded
  /\ Len(findings) = 2
  /\ Cardinality(MatchValues) = 1
  /\ pre.env.exists
  /\ Len(EnvAppended) = 1

\* C3: whenever a file's content differs from its content at the start of
\* the run, <path>.backup exists and equals the content at the start of
\* the run.
C3_BackupBeforeChange ==
  \A f \in SourceFiles :
    files[f] # pre.files[f] =>
      /\ backups[f].exists
      /\ backups[f].data = pre.files[f]

\* a file has been rewritten and the run is still going on
C3_Witness ==
  /\ pc \in { "backup", "env" }
  /\ \E f \in SourceFiles : files[f] # pre.files[f] /\ backups[f].exists

ArtifactFaults == { "env", "example", "gitignore" }

SourceFaults == { "read", "backup", "write" }

C5_NoRollback ==
  /\ [](\A f \in SourceFiles :
          written[f].done =>
            /\ files[f] = written[f].data
            /\ backups[f].exists
            /\ backups[f].data = pre.files[f])
  /\ [][\A f \in SourceFiles : backups[f].exists => backups'[f].exists]_vars

\* the run failed after a file was rewritten; the file stays rewritten
C5_Witness ==
  /\ pc = "done"
  /\ result.returned
  /\ ~result.success
  /\ \E f \in SourceFiles :
       /\ written[f].done
       /\ files[f] # pre.files[f]
       /\ files[f] = written[f].data

\* C6 as claimed: previewFixes returns the names autoFix assigns for the
\* same list, one per distinct match value, in the same order.
C6_PreviewMatchesAutoFix ==
  (preview.called /\ Assigned) =>
    [ i \in 1..Len(preview.envVars) |-> preview.envVars[i].name ]
      = [ i \in 1..Len(mappings) |-> mappings[i].envName ]

HasAllEntries(git) ==
  git.exists /\ \A i \in 1..Len(envEntries) : envEntries[i] \in Range(git.data)

\* C7: a run that starts with the three entries in .gitignore leaves the
\* file unchanged, and after the first successful run no later run changes
\* .gitignore.
C7_GitignoreIdempotent ==
  /\ HasAllEntries(pre.git) => gitignore = pre.git
  /\ gitSettled.set => gitignore = gitSettled.git

\* a second successful run on a .gitignore the first run had to extend
C7_Witness ==
  /\ Succeeded
  /\ runs = 2
  /\ Len(findings) > 0
  /\ gitSettled.set
  /\ pre.git = gitignore
  /\ Len(gitignore.data) = 6

\* the entries of envEntries that are no whole line of lines, in order
AbsentEntries(lines) == SelectSeq(envEntries, LAMBDA e : e \notin Range(lines))

\* C8: after a successful run with a finding, .gitignore holds the three
\* entries as lines; the old content is a prefix and what follows it is
\* exactly the entries that were no whole line of it, in order.
C8_GitignoreEntriesAppended ==
  (Succeeded /\ Len(findings) > 0) =>
    /\ HasAllEntries(gitignore)
    /\ IF pre.git.exists
       THEN /\ IsPrefix(pre.git.data, gitignore.data)
            /\ SubSeq(gitignore.data, Len(pre.git.data) + 1,
                      Len(gitignore.data))
                 = IF AbsentEntries(pre.git.data) = <<>> THEN <<>>
                   ELSE AbsentEntries(pre.git.data) \o << "" >>
       ELSE gitignore.data = envEntries \o << "" >>

\* .env.local was there, .env and .env.*.local were appended
C8_Witness ==
  /\ Succeeded
  /\ Len(findings) > 0
  /\ pre.git = File(<< ".env.local", "dist" >>)
  /\ gitignore = File(<< ".env.local", "dist", ".env", ".env.*.local", "" >>)

\* =========================================================== the scanner
\* deepest directory nesting below the file-system root
MaxDepth == 2

\* the secret catalog, in evaluation order; global is the g flag of the
\* rule's regex literal (none of the secret rules has it)
PATTERNS ==
  << [name |-> "Email Address",     severity |-> "warning", global |-> FALSE],
     [name |-> "API Key (Generic)", severity |-> "error",   global |-> FALSE],
     [name |-> "AWS Access Key ID", severity |-> "error",   global |-> FALSE],
     [name |-> "AWS Secret Key",    severity |-> "error",   global |-> FALSE],
     [name |-> "GitHub Token",      severity |-> "error",   global |-> FALSE],
     [name |-> "Stripe Key",        severity |-> "error",   global |-> FALSE],
     [name |-> "Stripe Test Key",   severity |-> "warning", global |-> FALSE],
     [name |-> "Private Key",       severity |-> "error",   global |-> FALSE],
     [name |-> "Database URL",      severity |-> "error",   global |-> FALSE],
     [name |-> "Bearer Token",      severity |-> "error",   global |-> FALSE],
     [name |-> "Password in Code",  severity |-> "error",   global |-> FALSE],
     [name |-> "Slack Token",       severity |-> "error",   global |-> FALSE],
     [name |-> "JWT Token",         severity |-> "error",   global |-> FALSE],
     [name |-> "Google API Key",    severity |-> "error",   global |-> FALSE] >>

\* String.prototype.matchAll with a regex that has no g flag depends on the
\* JavaScript engine: ES2020 engines throw a TypeError, engines that shipped
\* the earlier proposal (V8 before 8.0) return an iterator over the first
\* match only
Runtimes == { "throws", "firstOnly" }

DEFAULT_EXTENSIONS ==
  { ".js", ".ts", ".jsx", ".tsx", ".json", ".yaml", ".yml", ".md", ".txt" }

DEFAULT_EXCLUDE ==
  { "node_modules", "dist", "build", ".git", "coverage", ".env",
    ".env.local", ".next" }

\* a severity option that filters nothing
SeveritySkipsNothing(severity, pattern) == FALSE

\* options.severity && options.severity !== "all" &&
\* pattern.severity !== options.severity   ("none": option not given)
SeveritySkips(severity, pattern) ==
  /\ severity # "none"
  /\ severity # "all"
  /\ pattern.severity # severity

\* positions of the spans of line that the regex of pattern matches
MatchPositions(line, pattern) ==
  SelectSeq([ i \in 1..Len(line) |-> i ],
            LAMBDA i : line[i].t = "span" /\ line[i].det = pattern.name)

\* line.matchAll(pattern.regex), for a call that does not throw
matchAll(line, pattern, rt) ==
  IF pattern.global \/ MatchPositions(line, pattern) = <<>>
  THEN MatchPositions(line, pattern)
  ELSE << Head(MatchPositions(line, pattern)) >>

\* the marker tokens a segment of text contains, case-sensitively
SegmentTokens(seg) ==
  CASE seg = "apiKey=FAKE_1" -> { "FAKE_" }
    [] seg = "a@example.com" -> { "example" }
    [] seg = "xxx-tail"      -> { "xxx" }
    [] OTHER                 -> {}

\* text.includes(token)
Includes(text, token) ==
  token \in SegmentTokens(text.p20) \cup SegmentTokens(text.p100)
              \cup SegmentTokens(text.rest)

\* a suppression policy that has the first test only
SuppressedFakeOnly(span) ==
  Includes(span.val, "FAKE_") \/ Includes(span.val, "YOUR_")

\* the two `continue` tests of scanFile on match[0]
Suppressed(span) ==
  \/ Includes(span.val, "FAKE_") \/ Includes(span.val, "YOUR_")
  \/ \E token \in { "example", "placeholder", "xxx", "XXXX" } :
       Includes(span.val, token)

\* the findings one rule pushes for one line
LineFindings(filePath, index, line, pattern, rt) ==
  LET kept == SelectSeq(matchAll(line, pattern, rt),
                        LAMBDA i : ~Suppressed(line[i]))
  IN [ k \in 1..Len(kept) |->
         [ filePath   |-> filePath,
           lineNumber |-> index + 1,
           column     |-> kept[k],
           match      |-> Substring(line[kept[k]].val, 100),
           pattern    |-> pattern.name,
           severity   |-> pattern.severity ] ]

\* the k-th (line, rule) pair of lines.forEach / PATTERNS.forEach, from 0
PairPattern(k) == PATTERNS[(k % Len(PATTERNS)) + 1]

\* the pair's matchAll call is reached and throws a TypeError
PairThrows(severity, rt, k) ==
  /\ ~SeveritySkips(severity, PairPattern(k))
  /\ ~PairPattern(k).global
  /\ rt = "throws"

\* the number of pairs the loops complete: all of them, or those before the
\* first TypeError, which ends the loops in the catch block
PairsDone(lines, severity, rt) ==
  LET n == Len(lines) * Len(PATTERNS)
  IN CHOOSE k \in 0..n :
       /\ k = n \/ PairThrows(severity, rt, k)
       /\ \A j \in 0..(k - 1) : ~PairThrows(severity, rt, j)

\* what the k-th pair pushes
PairFindings(filePath, lines, severity, rt, k) ==
  IF SeveritySkips(severity, PairPattern(k)) THEN <<>>
  ELSE LineFindings(filePath, k \div Len(PATTERNS),
                    lines[(k \div Len(PATTERNS)) + 1], PairPattern(k), rt)

\* loops that run from the last rule of the last line back to the first
RECURSIVE ScanFromBackwards(_, _, _, _, _, _)
ScanFromBackwards(filePath, lines, severity, rt, lo, hi) ==
  IF lo >= hi THEN <<>>
  ELSE PairFindings(filePath, lines, severity, rt, hi - 1)
         \o ScanFromBackwards(filePath, lines, severity, rt, lo, hi - 1)

\* the findings pushed by the pairs lo .. hi-1, in the order of the loops
RECURSIVE ScanFrom(_, _, _, _, _, _)
ScanFrom(filePath, lines, severity, rt, lo, hi) ==
  IF lo >= hi THEN <<>>
  ELSE IF hi = lo + 1 THEN PairFindings(filePath, lines, severity, rt, lo)
  ELSE LET mid == (lo + hi) \div 2
       IN ScanFrom(filePath, lines, severity, rt, lo, mid)
            \o ScanFrom(filePath, lines, severity, rt, mid, hi)

\* scanFile: a file that cannot be read gives no findings; the catch block
\* keeps what was pushed before a TypeError
scanFile(filePath, file, severity, rt) ==
  IF ~file.exists THEN <<>>
  ELSE ScanFrom(filePath, file.data, severity, rt, 0,
                PairsDone(file.data, severity, rt))

\* an exception leaves scanFile: never, its whole body is inside try and
\* the catch block only calls console.error and path.basename
scanFileThrows(filePath, file, severity, rt) == FALSE

\* path.basename(filePath)
basename(filePath) == filePath[Len(filePath)]

\* a catch block that logs the path and the content it failed on
scanFileLogsContent(filePath, file, severity, rt) ==
  << [text |-> "Error reading file: ", arg |-> filePath, data |-> file.data] >>

\* what scanFile writes with console.error: its catch block runs when
\* readFileSync fails and when matchAll throws
scanFileLog(filePath, file, severity, rt) ==
  IF \/ ~file.exists
     \/ PairsDone(file.data, severity, rt) < Len(file.data) * Len(PATTERNS)
  THEN << [text |-> "Error reading file: ", arg |-> basename(filePath),
           data |-> <<>>] >>
  ELSE <<>>

\* --------------------------------------------------- the network scanner
\* the network catalog, in evaluation order; every regex has the g flag
NETWORK_PATTERNS ==
  << [name |-> "Console Log with User Object",          severity |-> "error"],
     [name |-> "Console Log with API Response",         severity |-> "warning"],
     [name |-> "Console Log with Authorization Header", severity |-> "error"],
     [name |-> "Fetch with Hardcoded Authorization",    severity |-> "error"],
     [name |-> "Axios with Hardcoded Authorization",    severity |-> "error"],
     [name |-> "API Key in Query Parameters",           severity |-> "error"],
     [name |-> "Return Full User Object in Response",   severity |-> "error"],
     [name |-> "Return Database Document Directly",     severity |-> "warning"],
     [name |-> "Error Response with Stack Trace",       severity |-> "error"],
     [name |-> "Console Log in Error Handler",          severity |-> "warning"],
     [name |-> "Axios Instance with Hardcoded Config",  severity |-> "warning"],
     [name |-> "Wildcard CORS Origin",                  severity |-> "warning"],
     [name |-> "Debugger Statement",                    severity |-> "error"],
     [name |-> "TODO/FIXME with Sensitive Context",     severity |-> "warning"] >>

\* the procedural checks, in evaluation order
NETWORK_SECURITY_CHECKS ==
  << [name |-> "Missing Error Handler", severity |-> "warning"],
     [name |-> "Raw Error in Response", severity |-> "error"] >>

\* A piece of a line for the network scan: rule names the network pattern
\* whose regex matches it, check the procedural check whose regex finds it
\* ("none" for neither).
NetText(rule, check) == [rule |-> rule, check |-> check]

\* the severity test at the head of NETWORK_PATTERNS.forEach
NetworkSeveritySkips(severity, pattern) ==
  /\ severity # "none"
  /\ severity # "all"
  /\ pattern.severity # severity

\* the findings pushed for one line by the patterns from the k-th on
RECURSIVE NetPatternFindings(_, _, _, _, _)
NetPatternFindings(filePath, index, line, severity, k) ==
  IF k > Len(NETWORK_PATTERNS) THEN <<>>
  ELSE LET pattern == NETWORK_PATTERNS[k]
           hits == IF NetworkSeveritySkips(severity, pattern) THEN <<>>
                   ELSE SelectSeq([ i \in 1..Len(line) |-> i ],
                                  LAMBDA i : line[i].rule = pattern.name)
       IN [ h \in 1..Len(hits) |->
              [ filePath   |-> filePath,
                lineNumber |-> index + 1,
                column     |-> hits[h],
                pattern    |-> pattern.name,
                severity   |-> pattern.severity ] ]
          \o NetPatternFindings(filePath, index, line, severity, k + 1)

\* check.check(line)
CheckTests(check, line) ==
  \E i \in 1..Len(line) : line[i].check = check.name

\* NETWORK_SECURITY_CHECKS.forEach for one line: the options are not
\* consulted
NetCheckFindings(filePath, index, line, severity) ==
  LET hits == SelectSeq([ c \in 1..Len(NETWORK_SECURITY_CHECKS) |-> c ],
                        LAMBDA c : CheckTests(NETWORK_SECURITY_CHECKS[c],
                                              line))
  IN [ h \in 1..Len(hits) |->
         [ filePath   |-> filePath,
           lineNumber |-> index + 1,
           column     |-> 1,
           pattern    |-> NETWORK_SECURITY_CHECKS[hits[h]].name,
           severity   |-> NETWORK_SECURITY_CHECKS[hits[h]].severity ] ]

\* lines.forEach of scanNetworkSecurity, from the line of index `index`
RECURSIVE NetScanFrom(_, _, _, _)
NetScanFrom(filePath, lines, severity, index) ==
  IF index >= Len(lines) THEN <<>>
  ELSE NetPatternFindings(filePath, index, lines[index + 1], severity, 1)
         \o NetCheckFindings(filePath, index, lines[index + 1], severity)
         \o NetScanFrom(filePath, lines, severity, index + 1)

\* scanNetworkSecurity: a file that cannot be read gives no findings
scanNetworkSecurity(filePath, file, severity) ==
  IF ~file.exists THEN <<>>
  ELSE NetScanFrom(filePath, file.data, severity, 0)

\* what its catch block writes with console.error: the whole path
scanNetworkSecurityLog(filePath, file) ==
  IF ~file.exists
  THEN << [text |-> "Error reading file for network scan: ",
           arg |-> filePath] >>
  ELSE <<>>

\* ------------------------------------------------------- the scanned tree
\* "node_modules-1" stands for a name such as node_modules-<timestamp>
DirNames == { "lib", "node_modules", "node_modules-1" }

AwsKey == Str("AKIA-one", "", "")
AwsKey2 == Str("AKIA-two", "", "")
Mail == Str("dev@corp.io", "", "")
FakeKey == Str("apiKey=FAKE_1", "", "")
PemHeader == Str("BEGIN PRIVATE KEY", "", "")

\* what a file of a given name holds, as lines of spans
FileContent(name) ==
  CASE name = "e.js" ->
         << << Text("Email Address", "Email Address", Mail, ""),
               Text("AWS Access Key ID", "none", AwsKey, ""),
               Text("AWS Access Key ID", "none", AwsKey2, "") >>,
            << Text("API Key (Generic)", "API Key (Generic)", FakeKey,
                    "FAKE_") >> >>
    [] name = "w.txt" ->
         << << Text("Email Address", "Email Address", Mail, "") >> >>
    [] name = "k.pem" ->
         << << Text("Private Key", "none", PemHeader, "") >> >>
    [] name = "U.JS" ->
         << << Text("Email Address", "Email Address", Mail, "") >> >>
    [] OTHER -> << <<>> >>

FileNames == { "U.JS", "e.js", "k.pem", "w.txt" }

\* path.extname(entry.name)
extname(name) ==
  CASE name = "e.js"  -> ".js"
    [] name = "w.txt" -> ".txt"
    [] name = "k.pem" -> ".pem"
    [] name = "U.JS"  -> ".JS"
    [] OTHER          -> ""

\* ext.toLowerCase()
toLowerCase(ext) == IF ext = ".JS" THEN ".js" ELSE ext

\* the directories of the tree: every nesting of DirNames up to MaxDepth
AllDirs == SeqsUpTo(DirNames, MaxDepth)

\* fs.readdirSync lists names in this order
EntryOrder ==
  << "U.JS", "e.js", "k.pem", "lib", "node_modules", "node_modules-1",
     "w.txt" >>

\* the entries of a readable directory
ReadDir(dirPath, fsys) ==
  SelectSeq(EntryOrder,
            LAMBDA n : \/ n \in DirNames /\ Len(dirPath) < MaxDepth
                       \/ n \in fsys.present)

DirExists(path) == path \in AllDirs

FileExists(path, fsys) ==
  /\ Len(path) >= 1
  /\ SubSeq(path, 1, Len(path) - 1) \in AllDirs
  /\ path[Len(path)] \in fsys.present

\* fs.readFileSync of a path of the tree
ReadFile(path, fsys) ==
  IF FileExists(path, fsys) THEN File(FileContent(path[Len(path)]))
  ELSE NoFile

\* an extension filter that lets every file through
extensionsIncludesAlways(extensions, ext) == TRUE

\* extensions.includes(ext)
extensionsIncludes(extensions, ext) == ext \in extensions

\* an exclude list that matches nothing
excludeIncludesNever(exclude, name) == FALSE

\* exclude.includes(entry.name)
excludeIncludes(exclude, name) == name \in exclude

\* results.push({filePath, findings}) when findings.length > 0; scanned is
\* the history of the paths handed to scanFile
PushScan(acc, fullPath, fs) ==
  [ results |-> IF Len(fs) > 0
                THEN Append(acc.results,
                            [filePath |-> fullPath, findings |-> fs,
                             error |-> ""])
                ELSE acc.results,
    scanned |-> Append(acc.scanned, fullPath) ]

\* a catch block that swallows the failure
PushErrorSilent(acc, dirPath) == acc

\* the catch block of scanRecursive
PushError(acc, dirPath) ==
  [ results |-> Append(acc.results,
                       [ filePath |-> dirPath, findings |-> <<>>,
                         error |-> "Permission denied or directory not accessible" ]),
    scanned |-> acc.scanned ]

NoScan == [results |-> <<>>, scanned |-> <<>>]

\* what was pushed first, then what was pushed next
Pushed(first, next) ==
  [ results |-> first.results \o next.results,
    scanned |-> first.scanned \o next.scanned ]

RECURSIVE scanRecursive(_, _)
RECURSIVE ScanEntries(_, _, _)
\* the for loop of scanRecursive over the entries not yet visited
ScanEntries(dirPath, entries, req) ==
  IF entries = <<>> THEN NoScan
  ELSE LET name     == Head(entries)
           fullPath == Append(dirPath, name)
           entry    ==
             IF name \in DirNames
             THEN IF ~excludeIncludes(req.exclude, name)
                  THEN scanRecursive(fullPath, req)
                  ELSE NoScan
             ELSE IF extensionsIncludes(req.extensions,
                                        toLowerCase(extname(name)))
                  THEN PushScan(NoScan, fullPath,
                                scanFile(fullPath, ReadFile(fullPath, req.fsys),
                                         req.severity, req.rt))
                  ELSE NoScan
       IN Pushed(entry, ScanEntries(dirPath, Tail(entries), req))

scanRecursive(dirPath, req) ==
  IF dirPath \in req.fsys.unreadable
  THEN PushError(NoScan, dirPath)
  ELSE ScanEntries(dirPath, ReadDir(dirPath, req.fsys), req)

\* scanDirectory: statSync throws for a path that does not exist
scanDirectory(req) ==
  IF FileExists(req.path, req.fsys)
  THEN [ threw |-> FALSE,
         out   |-> PushScan(NoScan, req.path,
                            scanFile(req.path, ReadFile(req.path, req.fsys),
                                     req.severity, req.rt)) ]
  ELSE IF DirExists(req.path)
  THEN [threw |-> FALSE, out |-> scanRecursive(req.path, req)]
  ELSE [threw |-> TRUE, out |-> NoScan]

\* ======================================================= scanner: state
\* the file sets a directory may hold: none, only warnings, all kinds
PresentChoices == { {}, { "w.txt" }, FileNames }

AllFiles(present) ==
  { Append(d, n) : d \in AllDirs, n \in present }

\* readdir fails for no directory, for the root, or for one child of it
UnreadableChoices == { {} } \cup { {d} : d \in SeqsUpTo(DirNames, 1) }

\* a path fs.statSync fails on: it does not exist or cannot be reached
MissingPath == << "missing" >>

\* the paths a caller may name as the scan root
ScanRoots(fs) == AllDirs \cup AllFiles(fs.present) \cup { MissingPath }

\* options.extensions || DEFAULT_EXTENSIONS
ExtensionChoices == { DEFAULT_EXTENSIONS, { ".pem" } }

\* options.exclude || DEFAULT_EXCLUDE
ExcludeChoices == { DEFAULT_EXCLUDE, { "lib" } }

NoFlags == [dryRun |-> FALSE, fix |-> FALSE, json |-> FALSE]

FlagChoices ==
  { NoFlags,
    [dryRun |-> FALSE, fix |-> FALSE, json |-> TRUE],
    [dryRun |-> FALSE, fix |-> TRUE,  json |-> FALSE],
    [dryRun |-> TRUE,  fix |-> FALSE, json |-> FALSE],
    [dryRun |-> TRUE,  fix |-> TRUE,  json |-> TRUE] }

Request(path, extensions, exclude, severity) ==
  [ path |-> path, extensions |-> extensions, exclude |-> exclude,
    severity |-> severity, fsys |-> tree, rt |-> runtime ]

NoRequest ==
  [ path |-> <<>>, extensions |-> {}, exclude |-> {}, severity |-> "none",
    fsys |-> [unreadable |-> {}, present |-> {}], rt |-> "throws" ]

\* the files handed to scanFile directly ------------------------------
ExampleMail == Str("a@example.com", "", "")
AwsUpper == Str("AKIA-EXAMPLE", "", "")
LongKey == Str("apiKey=0123456789", "more", "xxx-tail")

\* the occurrences a line may hold: plain matches of a warning and of an
\* error rule, a second match of the same rule, matches that contain
\* FAKE_ or example, one that contains EXAMPLE, and one whose text is
\* longer than 100 characters with xxx after the 100th
SpanUniverse ==
  { Text("Email Address", "Email Address", Mail, ""),
    Text("AWS Access Key ID", "none", AwsKey, ""),
    Text("AWS Access Key ID", "none", AwsKey2, ""),
    Text("API Key (Generic)", "API Key (Generic)", FakeKey, "FAKE_"),
    Text("Email Address", "Email Address", ExampleMail, "example"),
    Text("AWS Access Key ID", "none", AwsUpper, ""),
    Text("API Key (Generic)", "API Key (Generic)", LongKey, "xxx") }

\* most spans on one line
MaxSpans == 2

LineChoices == SeqsUpTo(SpanUniverse, MaxSpans)

\* content.split("\n") has at least one line; files of one or two lines
FileChoices ==
  { << l >> : l \in LineChoices }
    \cup { << k, l >> :
             k \in { <<>>,
                     << Text("AWS Access Key ID", "none", AwsKey, "") >>,
                     << Text("Email Address", "Email Address",
                             ExampleMail, "example") >> },
             l \in LineChoices }

NoFileCall ==
  [ called |-> FALSE, filePath |-> <<>>, file |-> NoFile,
    severity |-> "none", threw |-> FALSE, findings |-> <<>>, log |-> <<>> ]

\* the files handed to scanNetworkSecurity ---------------------------
\* a match of an error pattern and of a warning pattern, and a piece each
\* of the two procedural checks find
NetSpanUniverse ==
  { NetText("Debugger Statement", "none"),
    NetText("Wildcard CORS Origin", "none"),
    NetText("none", "Missing Error Handler"),
    NetText("none", "Raw Error in Response") }

NetLineChoices == SeqsUpTo(NetSpanUniverse, MaxSpans)

\* files of one or two lines
NetFileChoices ==
  { << l >> : l \in NetLineChoices }
    \cup { << k, l >> :
             k \in { <<>>,
                     << NetText("Debugger Statement", "none") >>,
                     << NetText("none", "Missing Error Handler") >> },
             l \in NetLineChoices }

NoNetCall ==
  [ called |-> FALSE, filePath |-> <<>>, file |-> NoFile,
    severity |-> "none", findings |-> <<>>, log |-> <<>> ]

ScanQuiet ==
  /\ runtime = "throws"
  /\ tree = [unreadable |-> {}, present |-> {}]
  /\ spc = "off"
  /\ request = NoRequest
  /\ flags = NoFlags
  /\ scanOut = [threw |-> FALSE, out |-> NoScan]
  /\ exitCode = 0
  /\ handoff = "none"
  /\ fileOut = NoFileCall
  /\ netOut = NoNetCall

ScanInit ==
  /\ runtime \in Runtimes
  /\ tree \in { [unreadable |-> u, present |-> p] :
                  u \in UnreadableChoices,
                  p \in PresentChoices }
  /\ spc = "idle"
  /\ request = NoRequest
  /\ flags = NoFlags
  /\ scanOut = [threw |-> FALSE, out |-> NoScan]
  /\ exitCode = 0
  /\ handoff = "none"
  /\ fileOut = NoFileCall
  /\ netOut = NoNetCall

\* results.flatMap((r) => r.findings)
RECURSIVE FlatFindings(_)
FlatFindings(results) ==
  IF results = <<>> THEN <<>>
  ELSE FlatFindings(SubSeq(results, 1, Len(results) - 1))
         \o results[Len(results)].findings

\* results.some((r) => r.findings.some((f) => f.severity === "error"))
hasErrors(results) ==
  \E i \in 1..Len(results) :
    \E j \in 1..Len(results[i].findings) :
      results[i].findings[j].severity = "error"

\* the exit code of the scan action: the catch block exits 1; --dry-run
\* and --fix return before the hasErrors test; the process then ends 0
ScanExitCode(out, fl) ==
  IF out.threw THEN 1
  ELSE IF fl.dryRun THEN 0
  ELSE IF fl.fix THEN 0
  ELSE IF hasErrors(out.out.results) THEN 1
  ELSE 0

\* the remediation function the scan action calls with allFindings
ScanHandoff(out, fl) ==
  IF out.threw \/ Len(FlatFindings(out.out.results)) = 0 THEN "none"
  ELSE IF fl.dryRun THEN "previewFixes"
  ELSE IF fl.fix THEN "autoFix"
  ELSE "none"

\* a direct call of the exported scanDirectory
ScanDirectoryCall ==
  /\ spc = "idle"
  /\ \E path \in ScanRoots(tree), ext \in ExtensionChoices,
        excl \in ExcludeChoices, sev \in { "none", "error", "warning" } :
       /\ request' = Request(path, ext, excl, sev)
       /\ scanOut' = scanDirectory(Request(path, ext, excl, sev))
  /\ spc' = "returned"
  /\ UNCHANGED << runtime, tree, flags, exitCode, handoff, fileOut,
                  netOut >>
  /\ UNCHANGED fixVars

\* a direct call of the exported scanFile, on a file that exists or on a
\* path that cannot be read
ScanFileCall ==
  /\ spc = "idle"
  /\ \E file \in { File(c) : c \in FileChoices } \cup { NoFile },
        sev \in { "none", "all", "error", "warning" } :
       LET filePath == IF file.exists THEN << "lib", "t.js" >>
                       ELSE << "non", "existent", "file.js" >>
       IN fileOut' =
            [ called   |-> TRUE,
              filePath |-> filePath,
              file     |-> file,
              severity |-> sev,
              threw    |-> scanFileThrows(filePath, file, sev, runtime),
              findings |-> scanFile(filePath, file, sev, runtime),
              log      |-> scanFileLog(filePath, file, sev, runtime) ]
  /\ spc' = "fileReturned"
  /\ UNCHANGED << runtime, tree, request, flags, scanOut, exitCode,
                  handoff, netOut >>
  /\ UNCHANGED fixVars

\* a call of scanNetworkSecurity, from the scan-network command or
\* direct, on a file that exists or on a path that cannot be read
ScanNetworkCall ==
  /\ spc = "idle"
  /\ \E file \in { File(c) : c \in NetFileChoices } \cup { NoFile },
        sev \in { "none", "all", "error", "warning" } :
       LET filePath == IF file.exists THEN << "lib", "api.ts" >>
                       ELSE << "non", "existent", "file.ts" >>
       IN netOut' =
            [ called   |-> TRUE,
              filePath |-> filePath,
              file     |-> file,
              severity |-> sev,
              findings |-> scanNetworkSecurity(filePath, file, sev),
              log      |-> scanNetworkSecurityLog(filePath, file) ]
  /\ spc' = "netReturned"
  /\ UNCHANGED << runtime, tree, request, flags, scanOut, exitCode,
                  handoff, fileOut >>
  /\ UNCHANGED fixVars

\* the `scan` command without --exclude: scanDirectory, then the mode
\* branches and the exit
CliScan ==
  /\ spc = "idle"
  /\ \E path \in ScanRoots(tree), ext \in ExtensionChoices,
        excl \in { DEFAULT_EXCLUDE }, sev \in { "all", "error", "warning" },
        fl \in FlagChoices :
       LET req == Request(path, ext, excl, sev)
           out == scanDirectory(req)
       IN /\ request' = req
          /\ flags' = fl
          /\ scanOut' = out
          /\ exitCode' = ScanExitCode(out, fl)
          /\ handoff' = ScanHandoff(out, fl)
  /\ spc' = "exited"
  /\ UNCHANGED << runtime, tree, fileOut, netOut >>
  /\ UNCHANGED fixVars

\* the caller is ready for the next call
ScanReset ==
  /\ spc \in { "returned", "exited", "fileReturned", "netReturned" }
  /\ spc' = "idle"
  /\ request' = NoRequest
  /\ flags' = NoFlags
  /\ scanOut' = [threw |-> FALSE, out |-> NoScan]
  /\ exitCode' = 0
  /\ handoff' = "none"
  /\ fileOut' = NoFileCall
  /\ netOut' = NoNetCall
  /\ UNCHANGED << runtime, tree >>
  /\ UNCHANGED fixVars

\* ======================================================= specifications
\* the remediation engine at rest
FixQuiet ==
  /\ files = [f \in SourceFiles |-> <<>>]
  /\ backups = [f \in SourceFiles |-> NoFile]
  /\ envFile = NoFile
  /\ envExample = NoFile
  /\ gitignore = NoFile
  /\ pc = "off"
  /\ findings = <<>>
  /\ usedNames = {}
  /\ envMappings = EmptyMap
  /\ mappings = <<>>
  /\ queue = <<>>
  /\ filesModified = <<>>
  /\ result = NoResult
  /\ preview = NoPreview
  /\ runs = 0
  /\ pre = [files |-> files, env |-> envFile, git |-> gitignore]
  /\ faults = {}
  /\ nFaults = 0
  /\ written = [f \in SourceFiles |-> NoWrite]
  /\ gitSettled = [set |-> FALSE, git |-> NoFile]

Init == FixInit /\ ScanQuiet

\* remediation: autoFix and previewFixes on a caller's findings list
Spec == Init /\ [][Next]_vars

NextScan ==
  \/ ScanDirectoryCall
  \/ CliScan
  \/ ScanReset

InitScan == ScanInit /\ FixQuiet

\* the scanner: scanDirectory and the `scan` command over a directory tree
SpecScan == InitScan /\ [][NextScan]_vars

\* the exported functions called directly, on a tree that holds every file
\* in every directory, all of them readable
InitApi ==
  /\ ScanInit
  /\ tree = [unreadable |-> {}, present |-> FileNames]
  /\ FixQuiet

NextApi ==
  \/ ScanFileCall
  \/ ScanDirectoryCall
  \/ ScanReset

SpecApi == InitApi /\ [][NextApi]_vars

NextNet ==
  \/ ScanNetworkCall
  \/ ScanReset

\* the network scanner called file by file
SpecNet == InitApi /\ [][NextNet]_vars

\* ---------------------------------------- the scan command with --fix
\* two secrets longer than 100 characters, equal in their first 100
Long1 == Str("apiKey=0123456789", "z20-to-99", "tail-A")
Long2 == Str("apiKey=0123456789", "z20-to-99", "tail-B")

\* the Finding scanFile pushes for a matched span:
\* match: match[0].substring(0, 100)
ScannedFinding(filePath, span) ==
  Finding(filePath, Substring(span.val, 100), span.det)

\* allFindings of the scan action, as a list of at most MaxFindings
\* findings: any of the findings the scan of the files can report, a
\* finding standing twice for two occurrences that agree in file, rule and
\* truncated text; a suppressed match is never among them
ScannedFindingLists(fn) ==
  SeqsUpTo({ ScannedFinding(f, fn[f][i]) :
               << f, i >> \in { << g, j >> \in SourceFiles \X (1..3) :
                                  /\ j <= Len(fn[g])
                                  /\ fn[g][j].det # "none"
                                  /\ ~Suppressed(fn[g][j]) } },
           MaxFindings)

HandoffFiles ==
  [ f \in SourceFiles |->
      IF f = "a.js"
      THEN << Span("API Key (Generic)", Long1), Plain,
              Span("API Key (Generic)", Long2) >>
      ELSE << Span("API Key (Generic)", S1) >> ]

InitHandoff ==
  /\ files = HandoffFiles
  /\ backups = [f \in SourceFiles |-> NoFile]
  /\ envFile \in { NoFile, OldEnv }
  /\ envExample = NoFile
  /\ gitignore \in { NoFile, File(<< "node_modules", "" >>) }
  /\ pc = "idle"
  /\ findings = <<>>
  /\ usedNames = {}
  /\ envMappings = EmptyMap
  /\ mappings = <<>>
  /\ queue = <<>>
  /\ filesModified = <<>>
  /\ result = NoResult
  /\ preview = NoPreview
  /\ runs = 0
  /\ pre = [files |-> files, env |-> envFile, git |-> gitignore]
  /\ faults = {}
  /\ nFaults = 0
  /\ written = [f \in SourceFiles |-> NoWrite]
  /\ gitSettled = [set |-> FALSE, git |-> NoFile]
  /\ ScanQuiet

\* const allFindings = results.flatMap((r) => r.findings)
CallScanned ==
  /\ pc = "idle"
  /\ \E fl \in ScannedFindingLists(files) : findings' = fl
  /\ pc' = "ready"
  /\ preview' = NoPreview
  /\ UNCHANGED << files, backups, envFile, envExample, gitignore, usedNames,
                  envMappings, mappings, queue, filesModified, result, runs,
                  pre, faults, nFaults, written, gitSettled >>
  /\ UNCHANGED scanVars

NextHandoff ==
  \/ CallScanned
  \/ PreviewFixes
  \/ AutoFixStart
  \/ ApplyBackup
  \/ ApplyWrite
  \/ CreateEnvFile
  \/ CreateEnvExample
  \/ UpdateGitignore
  \/ Finish

\* remediation of the findings a scan reported, on files that hold long
\* secrets
SpecHandoff == InitHandoff /\ [][NextHandoff]_vars

\* ------------------------------- remediation of files with other text
\* an assignment the rewrite regex of API Key (Generic) matches and the
\* detection regex does not: the value has fewer than 16 characters
ShortKey == Str("apiKey=short", "", "")

\* a.js: a reported API key, an API key assignment suppressed for FAKE_,
\* and a short one no rule detects; b.js: matches of two rules without a
\* rewrite regex, followed by plain text or by bytes that are no UTF-8
RewriteFiles(last) ==
  [ f \in SourceFiles |->
      IF f = "a.js"
      THEN << Span("API Key (Generic)", S1),
              Text("API Key (Generic)", "API Key (Generic)", FakeKey,
                   "FAKE_"),
              Text("none", "API Key (Generic)", ShortKey, "") >>
      ELSE << Text("Private Key", "none", PemHeader, ""),
              Text("AWS Access Key ID", "none", AwsKey, ""),
              last >> ]

\* a .env.example the project already has
OldExample ==
  File(ExampleContent(<< generateEnvVarName("Database URL", 0) >>))

InitRewrite ==
  /\ files \in { RewriteFiles(Plain), RewriteFiles(InvalidBytes) }
  /\ backups = [f \in SourceFiles |-> NoFile]
  /\ envFile \in { NoFile, OldEnv }
  /\ envExample \in { NoFile, OldExample }
  /\ gitignore \in { NoFile, File(<< "node_modules", "" >>) }
  /\ pc = "idle"
  /\ findings = <<>>
  /\ usedNames = {}
  /\ envMappings = EmptyMap
  /\ mappings = <<>>
  /\ queue = <<>>
  /\ filesModified = <<>>
  /\ result = NoResult
  /\ preview = NoPreview
  /\ runs = 0
  /\ pre = [files |-> files, env |-> envFile, git |-> gitignore]
  /\ faults = {}
  /\ nFaults = 0
  /\ written = [f \in SourceFiles |-> NoWrite]
  /\ gitSettled = [set |-> FALSE, git |-> NoFile]
  /\ ScanQuiet

\* remediation of the findings a scan reported, on files that also hold
\* text the scan did not report
SpecRewrite == InitRewrite /\ [][NextHandoff]_vars

\* ------------------------------------------ name assignment on its own
\* longest findings list whose names are assigned
MaxNamed == 3

S4 == Str("key-three", "", "")
S5 == Str("Authorization: tok", "", "")

\* findings of one rule with three values, of a catalog rule that is not
\* in the name table, and of a rule of the network catalog, which a
\* caller of the exported autoFix may pass as well (NetworkFinding extends
\* Finding)
NamedUniverse ==
  { Finding("a.js", S1, "API Key (Generic)"),
    Finding("a.js", S2, "API Key (Generic)"),
    Finding("a.js", S4, "API Key (Generic)"),
    Finding("b.js", S3, "Private Key"),
    Finding("b.js", S5, "Fetch with Hardcoded Authorization") }

InitNames ==
  /\ InitRewrite
  /\ files = RewriteFiles(Plain)
  /\ envFile = NoFile
  /\ envExample = NoFile
  /\ gitignore = NoFile

\* a caller holds a findings list of up to MaxNamed findings
CallNamed ==
  /\ pc = "idle"
  /\ \E fl \in SeqsUpTo(NamedUniverse, MaxNamed) : findings' = fl
  /\ pc' = "ready"
  /\ preview' = NoPreview
  /\ UNCHANGED << files, backups, envFile, envExample, gitignore, usedNames,
                  envMappings, mappings, queue, filesModified, result, runs,
                  pre, faults, nFaults, written, gitSettled >>
  /\ UNCHANGED scanVars

NextNames ==
  \/ CallNamed
  \/ PreviewFixes
  \/ AutoFixStart

\* the name assignment of autoFix and previewFixes, up to the point where
\* autoFix turns to the files
SpecNames == InitNames /\ [][NextNames]_vars

\* ===================================================== scanner: claims
\* a `scan` command has run to its exit without a failed scan
Exited == spc = "exited" /\ ~scanOut.threw

\* error-severity findings were reported and the run did not remediate
\* them: only --fix without --dry-run hands them to autoFix
ErrorsUnresolved ==
  /\ hasErrors(scanOut.out.results)
  /\ ~(flags.fix /\ ~flags.dryRun)

\* C9: in every mode (plain, --json, --fix, --dry-run) the scan command
\* exits with code 1 when error-severity findings remain unresolved and
\* with code 0 when none do
C9_ExitCodeReflectsErrors ==
  Exited => (exitCode = 1 <=> ErrorsUnresolved)

\* a call of scanDirectory, direct or from the command, has returned
Scanned == spc \in { "returned", "exited" } /\ ~scanOut.threw

\* the names of the directories on the path p of a file after the first
\* `from` components; the last component is the file's own name
DirsOn(p, from) == { p[i] : i \in (from + 1)..(Len(p) - 1) }

\* no scanned file and no file in the ScanResult list has, after the first
\* `from` components of its path, a directory named in the exclude set
NoneExcluded(from) ==
  /\ \A i \in 1..Len(scanOut.out.scanned) :
       DirsOn(scanOut.out.scanned[i], from) \cap request.exclude = {}
  /\ \A i \in 1..Len(scanOut.out.results) :
       LET r == scanOut.out.results[i]
       IN r.error = "" =>
            DirsOn(r.filePath, from) \cap request.exclude = {}

\* C10 (as stated): whatever path is given as the scan root, a file inside a
\* directory whose name is in the exclude set, at any depth, is never
\* scanned and never appears in the ScanResult list
C10_ExcludedNeverScanned ==
  Scanned => NoneExcluded(0)

\* C10 (amended): a file inside a directory that lies below the scan root
\* and whose name is in the exclude set, at any depth below the root, is
\* never scanned and never appears in the ScanResult list, whatever its
\* extension
C10_ExcludedBelowRootNeverScanned ==
  Scanned => NoneExcluded(Len(request.path))

\* a scan that reported findings skipped a file with an allowed extension in
\* an excluded directory nested two levels below the scan root
C10_Witness ==
  /\ Scanned
  /\ Len(scanOut.out.results) > 0
  /\ \E f \in AllFiles(tree.present) :
       /\ IsPrefix(request.path, f)
       /\ Len(f) > Len(request.path) + 2
       /\ f[Len(request.path) + 1] \notin request.exclude
       /\ f[Len(request.path) + 2] \in request.exclude
       /\ extensionsIncludes(request.extensions,
                             toLowerCase(extname(f[Len(f)])))
       /\ f \notin Range(scanOut.out.scanned)

\* r.filePath.includes("node_modules"): some component of the path has
\* node_modules as a substring
IncludesNodeModules(p) ==
  \E i \in 1..Len(p) : p[i] \in { "node_modules", "node_modules-1" }

\* C11: scanDirectory with the default exclude list, on a root whose own
\* path is free of node_modules, returns no ScanResult with findings whose
\* filePath contains the substring node_modules, also for a file with a
\* secret in a directory whose name only starts with node_modules
C11_NoNodeModulesInResults ==
  (Scanned /\ request.exclude = DEFAULT_EXCLUDE
           /\ ~IncludesNodeModules(request.path))
    => \A i \in 1..Len(scanOut.out.results) :
         scanOut.out.results[i].error = ""
           => ~IncludesNodeModules(scanOut.out.results[i].filePath)

\* the paths of the files scanDirectory scanned or returned findings for
ScannedFiles ==
  Range(scanOut.out.scanned)
    \cup { scanOut.out.results[i].filePath :
             i \in { j \in 1..Len(scanOut.out.results) :
                       scanOut.out.results[j].error = "" } }

\* C12 (as stated): every file scanDirectory scans, and every ScanResult
\* without an error field, has an extension that is in the request's
\* extension set, whether the root is a directory or a single file
C12_OnlyAllowedExtensions ==
  Scanned => \A f \in ScannedFiles :
               extname(f[Len(f)]) \in request.extensions

\* C12 (amended): when the scan root is a directory, every file scanned,
\* and every ScanResult without an error field, has an extension whose
\* lower-cased form is in the request's extension set
C12_WalkedFilesHaveAllowedExtension ==
  (Scanned /\ DirExists(request.path))
    => \A f \in ScannedFiles :
         toLowerCase(extname(f[Len(f)])) \in request.extensions

\* a walk scanned a file with an upper-case extension and passed over a
\* file of the same directory whose extension is not in the set
C12_Witness ==
  /\ Scanned
  /\ DirExists(request.path)
  /\ \E f \in ScannedFiles, g \in AllFiles(tree.present) :
       /\ extname(f[Len(f)]) \notin request.extensions
       /\ SubSeq(g, 1, Len(g) - 1) = SubSeq(f, 1, Len(f) - 1)
       /\ toLowerCase(extname(g[Len(g)])) \notin request.extensions
       /\ g \notin ScannedFiles

\* a call of scanDirectory, direct or from the command, is over
CallOver == spc \in { "returned", "exited" }

\* C13 (as stated): no path that cannot be read makes scanDirectory throw
C13_NeverThrows ==
  CallOver => ~scanOut.threw

\* the walk from the request's root enters directory d: no directory from
\* below the root down to d is excluded, none above d is unreadable
Entered(d) ==
  /\ IsPrefix(request.path, d)
  /\ \A i \in (Len(request.path) + 1)..Len(d) : d[i] \notin request.exclude
  /\ \A i \in Len(request.path)..(Len(d) - 1) :
       SubSeq(d, 1, i) \notin tree.unreadable

ErrorResult(d) ==
  [ filePath |-> d, findings |-> <<>>,
    error |-> "Permission denied or directory not accessible" ]

\* C13 (amended): scanDirectory throws only when the scan root itself
\* cannot be stat'ed; a directory of the walk that cannot be read is
\* reported as one ScanResult with an error string and no findings, and
\* every file with an allowed extension in a readable directory of the walk
\* is still scanned
C13_UnreadableDirectoryReported ==
  CallOver =>
    /\ scanOut.threw <=> request.path = MissingPath
    /\ DirExists(request.path) =>
         /\ \A d \in AllDirs :
              (Entered(d) /\ d \in tree.unreadable)
                <=> ErrorResult(d) \in Range(scanOut.out.results)
         /\ \A f \in AllFiles(tree.present) :
              ( /\ Entered(SubSeq(f, 1, Len(f) - 1))
                /\ SubSeq(f, 1, Len(f) - 1) \notin tree.unreadable
                /\ toLowerCase(extname(f[Len(f)])) \in request.extensions )
                => f \in Range(scanOut.out.scanned)

\* an unreadable directory below the root was reported, and a file listed
\* after it in the same parent directory was scanned and gave a result
C13_Witness ==
  /\ CallOver
  /\ \E d \in tree.unreadable :
       /\ Len(d) > Len(request.path)
       /\ ErrorResult(d) \in Range(scanOut.out.results)
       /\ \E i, j \in 1..Len(scanOut.out.results) :
            /\ scanOut.out.results[i] = ErrorResult(d)
            /\ i < j
            /\ scanOut.out.results[j].error = ""
            /\ SubSeq(scanOut.out.results[j].filePath, 1, Len(d) - 1)
                 = SubSeq(d, 1, Len(d) - 1)
            /\ Len(scanOut.out.results[j].filePath) = Len(d)

\* ================================================== scanFile: claims
MarkerTokens == { "FAKE_", "YOUR_", "example", "placeholder", "xxx", "XXXX" }

\* the occurrences of rule matches in the file handed to scanFile
Occurrences(file) ==
  { << l, i >> \in (1..Len(file.data)) \X (1..MaxSpans) :
      i <= Len(file.data[l]) /\ file.data[l][i].det # "none" }

\* C14: no Finding returned by scanFile has a match text that contains
\* FAKE_, YOUR_, example, placeholder, xxx or XXXX, and a file whose rule
\* matches all contain such a marker yields no Finding
C14_SuppressedNeverReported ==
  fileOut.called =>
    /\ \A k \in 1..Len(fileOut.findings), token \in MarkerTokens :
         ~Includes(fileOut.findings[k].match, token)
    /\ ( \A o \in Occurrences(fileOut.file) :
           \E token \in MarkerTokens :
             Includes(fileOut.file.data[o[1]][o[2]].val, token) )
         => fileOut.findings = <<>>

\* on a runtime where matchAll returns matches, a file with one match that
\* contains example and one that contains FAKE_, and no other, gave no
\* Finding
C14_Witness ==
  /\ fileOut.called
  /\ runtime = "firstOnly"
  /\ fileOut.severity = "all"
  /\ fileOut.findings = <<>>
  /\ \E o \in Occurrences(fileOut.file) :
       /\ Includes(fileOut.file.data[o[1]][o[2]].val, "FAKE_")
       /\ ~Includes(fileOut.file.data[o[1]][o[2]].val, "example")
  /\ \E o \in Occurrences(fileOut.file) :
       /\ Includes(fileOut.file.data[o[1]][o[2]].val, "example")
       /\ ~Includes(fileOut.file.data[o[1]][o[2]].val, "FAKE_")

\* the catalog rule of a given name
PatternNamed(name) == CHOOSE r \in Range(PATTERNS) : r.name = name

\* the occurrence o of the file handed to scanFile is one the claim wants
\* reported: its rule passes the severity filter and it is not suppressed
Reportable(o) ==
  LET span == fileOut.file.data[o[1]][o[2]]
  IN /\ ~SeveritySkips(fileOut.severity, PatternNamed(span.det))
     /\ ~Suppressed(span)

\* C15: for each line of a readable file and each rule that passes the
\* severity filter, scanFile emits one Finding for every non-suppressed
\* occurrence of the rule on that line
C15_FindingPerOccurrence ==
  (fileOut.called /\ fileOut.file.exists) =>
    \A o \in Occurrences(fileOut.file) :
      Reportable(o) =>
        \E k \in 1..Len(fileOut.findings) :
          /\ fileOut.findings[k].lineNumber = o[1]
          /\ fileOut.findings[k].column = o[2]
          /\ fileOut.findings[k].pattern
               = fileOut.file.data[o[1]][o[2]].det

\* every Finding of the list has the given severity
AllOfSeverity(fs, severity) ==
  \A k \in 1..Len(fs) : fs[k].severity = severity

PatternIndex(name) ==
  CHOOSE i \in 1..Len(PATTERNS) : PATTERNS[i].name = name

\* f comes before g: earlier line, or same line and earlier rule, or same
\* line and rule and a match further left
ComesBefore(f, g) ==
  \/ f.lineNumber < g.lineNumber
  \/ /\ f.lineNumber = g.lineNumber
     /\ PatternIndex(f.pattern) < PatternIndex(g.pattern)
  \/ /\ f.lineNumber = g.lineNumber
     /\ f.pattern = g.pattern
     /\ f.column < g.column

\* C17: the Finding list scanFile returns is ordered by line number, then
\* by the rule's position in the catalog, then by match position
C17_FindingsOrdered ==
  fileOut.called =>
    \A i, j \in 1..Len(fileOut.findings) :
      i < j => ComesBefore(fileOut.findings[i], fileOut.findings[j])

\* a scan returned findings on two lines, two of them on one line where the
\* match of the later rule stands left of the match of the earlier rule
C17_Witness ==
  /\ fileOut.called
  /\ \E i, j, k \in 1..Len(fileOut.findings) :
       /\ i < j /\ j < k
       /\ fileOut.findings[i].lineNumber < fileOut.findings[j].lineNumber
       /\ fileOut.findings[j].lineNumber = fileOut.findings[k].lineNumber
       /\ fileOut.findings[j].column > fileOut.findings[k].column

\* C18: scanFile never throws; for a file that does not exist or cannot
\* be read it returns an empty Finding list; every diagnostic it logs names
\* the file by its base name only and carries no file content
C18_UnreadableFileQuiet ==
  fileOut.called =>
    /\ ~fileOut.threw
    /\ ~fileOut.file.exists =>
         /\ fileOut.findings = <<>>
         /\ Len(fileOut.log) = 1
    /\ \A k \in 1..Len(fileOut.log) :
         /\ fileOut.log[k].arg = basename(fileOut.filePath)
         /\ fileOut.log[k].data = <<>>

\* scanFile was called on a path that cannot be read, which lies in a
\* directory, and returned
C18_Witness ==
  /\ fileOut.called
  /\ ~fileOut.file.exists
  /\ Len(fileOut.filePath) > 1
  /\ fileOut.findings = <<>>
  /\ fileOut.log # <<>>

\* ============================================ scan and fix: claims
\* the secrets of the files before the run that the findings list reports
ReportedSecrets ==
  { pre.files[f][i].val :
      << f, i >> \in { << g, j >> \in SourceFiles \X (1..3) :
                         /\ j <= Len(pre.files[g])
                         /\ pre.files[g][j].det # "none"
                         /\ ScannedFinding(g, pre.files[g][j])
                              \in Range(findings) } }

\* the name remediation assigns to a secret: envMappings.get(finding.match)
\* of the finding reported for it
SecretName(val) == envMappings[Substring(val, 100)]

\* C19: remediation identifies a secret by its untruncated text: two
\* reported secrets that differ, be it only after the 100th character, get
\* different names, and the value written to .env for each is its full text
C19_UntruncatedIdentity ==
  Succeeded =>
    /\ \A u, v \in ReportedSecrets :
         u # v => SecretName(u) # SecretName(v)
    /\ \A u \in ReportedSecrets :
         \E k \in 1..Len(EnvAppended) :
           /\ EnvAppended[k].name = SecretName(u)
           /\ EnvAppended[k].value = u

\* C20: on success the filesModified list autoFix returns holds exactly the
\* files whose content the run changed, each once
C20_FilesModifiedExact ==
  Succeeded =>
    /\ \A f \in SourceFiles :
         f \in Range(result.filesModified) <=> files[f] # pre.files[f]
    /\ \A i, j \in 1..Len(result.filesModified) :
         result.filesModified[i] = result.filesModified[j] => i = j

\* ======================================= remediation: further claims
\* the distinct match values of the findings list, in the order in which
\* they are first seen
DistinctValues ==
  DistinctInOrder([ i \in 1..Len(findings) |-> findings[i].match ])

\* C21: after a successful run .env is its previous content (if it
\* existed) followed by one NAME=value line per distinct secret of the run,
\* in the order in which the values were first seen in the findings list;
\* no existing line is removed, reordered or merged with a new one
C21_EnvAppendsInDiscoveryOrder ==
  Succeeded =>
    /\ pre.env.exists =>
         (envFile.exists /\ IsPrefix(pre.env.data, envFile.data))
    /\ Len(findings) = 0 => envFile = pre.env
    /\ Len(findings) > 0 =>
         /\ envFile.exists
         /\ Len(EnvAppended) = Len(DistinctValues)
         /\ \A k \in 1..Len(EnvAppended) :
              /\ EnvAppended[k].value = DistinctValues[k]
              /\ EnvAppended[k].name = envMappings[DistinctValues[k]]

\* a second run on two secrets, the secret of b.js listed before that of
\* a.js, appended its two lines after the same two lines of the first run
\* and after an older line of the same name
C21_Witness ==
  /\ Succeeded
  /\ runs = 2
  /\ Len(DistinctValues) = 2
  /\ findings[1].filePath = "b.js"
  /\ findings[2].filePath = "a.js"
  /\ Len(pre.env.data) = 3
  /\ pre.env.data[1] = OldEnv.data[1]
  /\ Len(envFile.data) = 5
  /\ envFile.data[4] = envFile.data[2]
  /\ envFile.data[4].name = pre.env.data[1].name
  /\ envFile.data[5] = envFile.data[3]

\* the names a call of autoFix on the list fs returns when nothing was
\* called before it
FreshEnvVars(fs) ==
  [ i \in 1..Len(GenerateMappings(fs).mappings) |->
      GenerateMappings(fs).mappings[i].envName ]

Replaced(f, i) ==
  /\ written[f].done
  /\ i <= Len(pre.files[f])
  /\ pre.files[f][i].t = "span"
  /\ files[f][i].t = "ref"

\* C23: every span a run replaces is replaced by a reference to the
\* variable assigned to that span's own secret value; two different
\* secrets of one rule in one file are each replaced by their own variable
C23_SpanGetsOwnVariable ==
  \A f \in SourceFiles, i \in 1..3 :
    Replaced(f, i) =>
      /\ Substring(pre.files[f][i].val, 100) \in DOMAIN envMappings
      /\ files[f][i].env = envMappings[Substring(pre.files[f][i].val, 100)]

\* the text at position i of file f, as it stood when the run started,
\* produced a Finding of the findings list
ProducedFinding(f, i) ==
  /\ pre.files[f][i].det # "none"
  /\ ~Suppressed(pre.files[f][i])
  /\ ScannedFinding(f, pre.files[f][i]) \in Range(findings)

\* C24: a run changes a file only at spans that correspond to a Finding
\* reported for that file; text that produced no Finding (a suppressed
\* match, text no detection rule matched) is the same before and after
C24_OnlyReportedSpansChange ==
  \A f \in SourceFiles, i \in 1..3 :
    (i <= Len(pre.files[f]) /\ files[f][i] # pre.files[f][i])
      => ProducedFinding(f, i)

\* every finding of file f comes from a rule without a rewrite regex
DetectOnly(f) ==
  /\ FileFindings(findings, f) # <<>>
  /\ \A i \in 1..Len(findings) :
       findings[i].filePath = f => findings[i].pattern \notin RewriteRules

\* C25: a file all of whose findings come from rules without a rewrite
\* regex has the same bytes before and after the run, and each of its
\* secret values is recorded in .env under a name that is in envVars
C25_DetectOnlyFileUntouched ==
  \A f \in SourceFiles :
    (pc = "done" /\ runs > 0 /\ DetectOnly(f)) =>
      /\ files[f] = pre.files[f]
      /\ Succeeded =>
           \A i \in 1..Len(findings) :
             findings[i].filePath = f =>
               \E k \in 1..Len(EnvAppended) :
                 /\ EnvAppended[k].value = findings[i].match
                 /\ EnvAppended[k].name \in Range(result.envVars)

\* the rule of a secret value: the rule of the first finding that has it
RuleOf(v) ==
  findings[CHOOSE i \in 1..Len(findings) :
             /\ findings[i].match = v
             /\ \A j \in 1..(i - 1) : findings[j].match # v].pattern

\* the base name of a value: the table entry of its rule, SECRET without
BaseOf(v) ==
  IF RuleOf(v) \in PatternToEnvKeys THEN patternToEnv(RuleOf(v))
  ELSE "SECRET"

\* C26: among the distinct values whose rule maps to the same base name
\* (SECRET for a rule absent from the table), the first in input order is
\* named BASE and the j-th following one BASE_j, j = 1, 2, ..., without a
\* gap; the search for a free name ends after at most as many steps as
\* there are values before it
C26_SuffixScheme ==
  Assigned =>
    \A k \in 1..Len(DistinctValues) :
      /\ DistinctValues[k] \in DOMAIN envMappings
      /\ envMappings[DistinctValues[k]].base = BaseOf(DistinctValues[k])
      /\ envMappings[DistinctValues[k]].idx
           = Cardinality({ j \in 1..(k - 1) :
                             BaseOf(DistinctValues[j])
                               = BaseOf(DistinctValues[k]) })
      /\ envMappings[DistinctValues[k]].idx < k

\* three values of one rule were named BASE, BASE_1, BASE_2; or two rules
\* absent from the table shared SECRET and SECRET_1 around another base
C26_Witness ==
  /\ Assigned
  /\ Len(mappings) = 3
  /\ mappings[1].pattern # mappings[3].pattern
  /\ mappings[1].envName = [base |-> "SECRET", idx |-> 0]
  /\ mappings[2].envName.base # "SECRET"
  /\ mappings[3].envName = [base |-> "SECRET", idx |-> 1]

\* the lines createEnvExample writes for the names a run returned
ExampleLines ==
  [ i \in 1..Len(result.envVars) |->
      [ name  |-> result.envVars[i],
        lower |-> nameToLowerCase(result.envVars[i]) ] ]

\* no line of .env.example holds a secret value of the findings list
NoSecretInExample ==
  \A i \in 1..Len(envExample.data) :
    /\ envExample.data[i].name \notin MatchValues
    /\ envExample.data[i].lower \notin MatchValues
    /\ DOMAIN envExample.data[i] = { "name", "lower" }

\* C27 (as stated): after every successful run .env.example consists
\* exactly of one line NAME=your_<lower-cased NAME>_here per name in
\* envVars, in order, and nothing of its previous content remains
C27_ExampleAfterEveryRun ==
  Succeeded =>
    /\ envExample.data = ExampleLines
    /\ NoSecretInExample

\* C27 (amended): after every successful run on a list with at least one
\* finding .env.example exists and consists exactly of one line
\* NAME=your_<lower-cased NAME>_here per name in envVars, in order, with
\* nothing of its previous content and no secret value; a run on an empty
\* list leaves .env.example as it is
C27_ExampleOverwrittenWhenFindings ==
  Succeeded =>
    IF Len(findings) > 0
    THEN /\ envExample = File(ExampleLines)
         /\ NoSecretInExample
    ELSE envExample \in { NoFile, OldExample }

\* a second successful run on two secrets: .env has the two lines twice,
\* .env.example has them once, with lower-case placeholders
C27_Witness ==
  /\ Succeeded
  /\ runs = 2
  /\ Len(result.envVars) = 2
  /\ Len(envFile.data) - Len(EnvAppended) >= 2
  /\ Len(envExample.data) = 2
  /\ envExample.data[1].lower # envExample.data[1].name
  /\ envExample.data[2].name = result.envVars[2]

\* ============================================ network scanner: claims
\* C28: scanNetworkSecurity honours the severity filter for everything it
\* reports: with filter error (warning) every NetworkFinding it returns,
\* from a network pattern or from a procedural check, has severity error
\* (warning)
C28_NetworkSeverityFilter ==
  (netOut.called /\ netOut.severity \in { "error", "warning" })
    => AllOfSeverity(netOut.findings, netOut.severity)

\* ============================================ backups across two runs
\* the content a source file has before the first run
OriginalContent(f) == HandoffFiles[f]

\* the second run has backed up and rewritten file f, which the first run
\* had changed
SecondRunOver(f) ==
  /\ runs = 2
  /\ written[f].done
  /\ pre.files[f] # OriginalContent(f)

\* C29: each run overwrites an existing <path>.backup with the content
\* the file has at the start of that run: after two runs that both
\* target a file, its backup equals the content the first run left, and
\* no backup holds the content from before the first run any more
C29_BackupOverwrittenEachRun ==
  \A f \in SourceFiles :
    SecondRunOver(f) =>
      /\ backups[f] = File(pre.files[f])
      /\ \A g \in SourceFiles : backups[g].data # OriginalContent(f)

\* after the second run the backup of a.js holds references, no secret
C29_Witness ==
  /\ Succeeded
  /\ SecondRunOver("a.js")
  /\ backups["a.js"].data = files["a.js"]
  /\ \E i \in 1..3 :
       /\ OriginalContent("a.js")[i].t = "span"
       /\ backups["a.js"].data[i].t = "ref"

\* ================================================ what autoFix returns
\* autoFix has returned success: false
Failed == pc = "done" /\ result.returned /\ ~result.success

\* C30: a result with success: false has empty envVars and filesModified,
\* also when the run had rewritten and backed up files; a call with an
\* empty findings list returns success: true with both lists empty and
\* writes no file
C30_FailureAndEmptyResults ==
  /\ Failed => (result.envVars = <<>> /\ result.filesModified = <<>>)
  /\ (pc = "done" /\ runs > 0 /\ Len(findings) = 0) =>
       /\ result = SuccessResult(<<>>, <<>>)
       /\ files = pre.files
       /\ \A f \in SourceFiles : backups[f] = NoFile /\ ~written[f].done
       /\ envFile = pre.env
       /\ envExample = NoFile
       /\ gitignore = pre.git

\* a run that assigned two names and rewrote and backed up a file failed
\* at an artifact and returned empty lists
C30_Witness ==
  /\ Failed
  /\ Len(mappings) = 2
  /\ filesModified # <<>>
  /\ result.envVars = <<>>
  /\ result.filesModified = <<>>
  /\ \E f \in SourceFiles :
       /\ f \in Range(filesModified)
       /\ backups[f] = File(pre.files[f])
       /\ files[f] # pre.files[f]

=============================================================================
